---- MODULE Spec2Model ----
(***************************************************************************)
(* Transparency scoring and adaptive questionnaire engine.                 *)
(*                                                                         *)
(* The model covers the local engine (aiService: question generator,       *)
(* completeness scorer, insight generator), the microservice client with   *)
(* its local fallback branches (the resilience orchestrator) and the       *)
(* product submission form that drives them.                               *)
(*                                                                         *)
(* A JavaScript string is a sequence of one-character strings, so that     *)
(* length, trim(), toLowerCase() and includes() are computed, not assumed. *)
(***************************************************************************)
EXTENDS Integers, Sequences, FiniteSets, TLC

VARIABLES
    formData,     \* the form-data argument of the operation under study
    pc,           \* Idle | RemoteAttempt | FallbackAttempt | Success | Failed | Done
    op,           \* the operation invoked: none | questions | score | insights
    scoreArg,     \* the score argument of generateInsights (-1: none)
    scoreFrom,    \* where scoreArg comes from: none | sample | local | remote | fallback
    result,       \* what the operation returned
    prevScore,    \* the score returned before the latest added answer (-1: none)
    added,        \* the answer added last: <<key, value>>, or <<>>
    response,     \* the remote service's reply to the pending request
    requests,     \* outbound requests issued by the current invocation
    path,         \* where the result was computed: none | local | remote | fallback
    \* state of the ProductForm component
    currentUser,             \* TRUE when a user is signed in (the currentUser prop)
    currentStep,
    dynamicQuestions,
    isGeneratingQuestions,
    isSubmitting,
    insights,
    isSubmitted,
    generating,              \* the question generations in flight, oldest first
    submitPhase,             \* idle | scoring | saving: where handleSubmit is suspended
    submitData,              \* form data captured by the handleSubmit in flight
    error,                   \* what the catch block of the last handleSubmit caught:
                             \* none | score | save
    mockSubmissions          \* submissions appended by saveProductSubmission

\* variables of the engine operations
engineVars == <<pc, op, scoreArg, scoreFrom, result, prevScore, added, response, requests, path>>

\* variables of the form
formVars ==
    <<currentUser, currentStep, dynamicQuestions, isGeneratingQuestions, isSubmitting,
      insights, isSubmitted, generating, submitPhase, submitData, error, mockSubmissions>>

vars == <<formData, engineVars, formVars>>

----------------------------------------------------------------------------
(* Bounds of the model *)

\* number of dynamic-question keys that the sampled inputs may answer
MaxDyn == 5
\* length of the longest sampled string
LongLen == 101

----------------------------------------------------------------------------
(* JavaScript strings and values *)

Rep(c, n) == [i \in 1..n |-> c]
Text(n) == Rep("a", n)
Blank(n) == Rep(" ", n)

WhiteSpace == {" ", "\t", "\n"}

UpperCase == <<"A", "B", "C", "D", "E", "F", "G", "H", "I", "J", "K", "L", "M",
               "N", "O", "P", "Q", "R", "S", "T", "U", "V", "W", "X", "Y", "Z">>
LowerCase == <<"a", "b", "c", "d", "e", "f", "g", "h", "i", "j", "k", "l", "m",
               "n", "o", "p", "q", "r", "s", "t", "u", "v", "w", "x", "y", "z">>

\* String.prototype.toLowerCase
toLowerCase(s) ==
    [i \in 1..Len(s) |->
        IF \E j \in 1..26 : UpperCase[j] = s[i]
        THEN LowerCase[CHOOSE j \in 1..26 : UpperCase[j] = s[i]]
        ELSE s[i]]

\* String.prototype.includes
includes(s, sub) ==
    \E i \in 0..(Len(s) - Len(sub)) : SubSeq(s, i + 1, i + Len(sub)) = sub

\* String.prototype.trim
trim(s) ==
    IF \A i \in 1..Len(s) : s[i] \in WhiteSpace THEN <<>>
    ELSE SubSeq(s,
                CHOOSE i \in 1..Len(s) :
                    s[i] \notin WhiteSpace /\ \A j \in 1..(i - 1) : s[j] \in WhiteSpace,
                CHOOSE i \in 1..Len(s) :
                    s[i] \notin WhiteSpace /\ \A j \in (i + 1)..Len(s) : s[j] \in WhiteSpace)

\* values of a form-data map: undefined for a missing key, a string, a number, an
\* array of message strings, or an object of string entries
Undefined == [kind |-> "undefined"]
Str(s) == [kind |-> "string", str |-> s]
Num(n) == [kind |-> "number", num |-> n]
Arr(items) == [kind |-> "array", items |-> items]
Obj(entries) == [kind |-> "object", entries |-> entries]

\* Number.prototype.toString of a natural number
RECURSIVE Digits(_)
Digits(n) ==
    LET d == <<"0", "1", "2", "3", "4", "5", "6", "7", "8", "9">>
    IN  IF n < 10 THEN <<d[n + 1]>> ELSE Digits(n \div 10) \o <<d[(n % 10) + 1]>>

\* Array.prototype.toString: the elements joined by commas. The characters of a
\* message are not told apart: its length is kept, and it holds no white space at
\* either end.
RECURSIVE Join(_)
Join(items) ==
    IF items = <<>> THEN <<>>
    ELSE IF Len(items) = 1 THEN Rep("x", Len(items[1]))
    ELSE Rep("x", Len(items[1])) \o <<",">> \o Join(Tail(items))

ObjectString == <<"[", "o", "b", "j", "e", "c", "t", " ", "O", "b", "j", "e", "c", "t", "]">>

\* formData[key]
Get(fd, key) == IF key \in DOMAIN fd THEN fd[key] ELSE Undefined

toStringOfAnswers(v) ==
    IF v.kind = "string" THEN v.str
    ELSE IF v.kind = "number" THEN Digits(v.num)
    ELSE IF v.kind = "array" THEN Join(v.items)
    ELSE Rep("x", 30 * Cardinality(DOMAIN v.entries))

\* value.toString() of a value that is not undefined
toString(v) ==
    IF v.kind = "string" THEN v.str
    ELSE IF v.kind = "number" THEN Digits(v.num)
    ELSE IF v.kind = "array" THEN Join(v.items)
    ELSE ObjectString

\* JavaScript truthiness
Truthy(v) ==
    IF v.kind = "string" THEN Len(v.str) > 0
    ELSE IF v.kind = "number" THEN v.num # 0
    ELSE v.kind \in {"array", "object"}

\* v?.toString().length > n  (undefined > n is false)
LongerThan(v, n) == v.kind # "undefined" /\ Len(toString(v)) > n

\* v?.toString().trim() used as a condition
TrimTruthy(v) == v.kind # "undefined" /\ Len(trim(toString(v))) > 0

----------------------------------------------------------------------------
(* Literals of the source *)

FoodBeverages == <<"F", "o", "o", "d", " ", "&", " ", "B", "e", "v", "e", "r", "a", "g", "e", "s">>
CosmeticsCare == <<"C", "o", "s", "m", "e", "t", "i", "c", "s", " ", "&", " ", "P", "e", "r", "s", "o", "n", "a", "l", " ", "C", "a", "r", "e">>
SupplementsVitamins == <<"S", "u", "p", "p", "l", "e", "m", "e", "n", "t", "s", " ", "&", " ", "V", "i", "t", "a", "m", "i", "n", "s">>
HouseholdProducts == <<"H", "o", "u", "s", "e", "h", "o", "l", "d", " ", "P", "r", "o", "d", "u", "c", "t", "s">>
TextilesClothing == <<"T", "e", "x", "t", "i", "l", "e", "s", " ", "&", " ", "C", "l", "o", "t", "h", "i", "n", "g">>
Electronics == <<"E", "l", "e", "c", "t", "r", "o", "n", "i", "c", "s">>
Other == <<"O", "t", "h", "e", "r">>

\* the options of the form's category select
categories == <<FoodBeverages, CosmeticsCare, SupplementsVitamins, HouseholdProducts,
                TextilesClothing, Electronics, Other>>

organic == <<"o", "r", "g", "a", "n", "i", "c">>
Never == <<"N", "e", "v", "e", "r">>
NoTraceability == <<"N", "o", " ", "t", "r", "a", "c", "e", "a", "b", "i", "l", "i", "t", "y">>

\* the scorers' requiredFields
requiredFields == <<"productName", "category", "brand", "description",
                    "ingredients", "sourcing", "manufacturing">>

Range(seq) == {seq[i] : i \in 1..Len(seq)}

----------------------------------------------------------------------------
(* Question generator (aiService.generateFollowUpQuestions) *)

Question(id, type, options, required, category) ==
    [id |-> id, type |-> type, options |-> options, required |-> required,
     category |-> category]

FoodQuestions ==
    << Question("nutritional_info", "textarea", <<>>, TRUE, "nutrition"),
       Question("preservatives", "textarea", <<>>, FALSE, "ingredients"),
       Question("shelf_life", "select",
                <<"Less than 1 month", "1-3 months", "3-6 months", "6-12 months",
                  "More than 1 year">>, TRUE, "storage"),
       Question("allergen_testing", "textarea", <<>>, TRUE, "safety") >>

CosmeticsQuestions ==
    << Question("skin_type", "select",
                <<"All skin types", "Dry skin", "Oily skin", "Sensitive skin",
                  "Combination skin">>, TRUE, "suitability"),
       Question("animal_testing", "select",
                <<"No, never tested on animals",
                  "Not tested by us, but suppliers may have",
                  "Yes, tested on animals", "Unknown">>, TRUE, "ethics"),
       Question("packaging_material", "textarea", <<>>, TRUE, "packaging") >>

SupplementsQuestions ==
    << Question("dosage_instructions", "textarea", <<>>, TRUE, "usage"),
       Question("third_party_testing", "select",
                <<"Yes, by certified labs", "Yes, internally tested",
                  "No testing performed", "Unknown">>, TRUE, "quality"),
       Question("contraindications", "textarea", <<>>, TRUE, "safety") >>

DefaultQuestions ==
    << Question("quality_standards", "textarea", <<>>, TRUE, "quality"),
       Question("environmental_impact", "textarea", <<>>, FALSE, "sustainability") >>

OrganicQuestion ==
    Question("organic_certification", "textarea", <<>>, TRUE, "certifications")

SupplyChainQuestionsReordered ==
    << Question("social_responsibility", "textarea", <<>>, FALSE, "ethics"),
       Question("supplier_audits", "select",
                <<"Monthly", "Quarterly", "Annually", "As needed", "Never">>,
                TRUE, "supply_chain"),
       Question("traceability", "select",
                <<"Complete traceability", "Partial traceability",
                  "Limited traceability", "No traceability">>, TRUE, "supply_chain") >>

SupplyChainQuestions ==
    << Question("supplier_audits", "select",
                <<"Monthly", "Quarterly", "Annually", "As needed", "Never">>,
                TRUE, "supply_chain"),
       Question("traceability", "select",
                <<"Complete traceability", "Partial traceability",
                  "Limited traceability", "No traceability">>, TRUE, "supply_chain"),
       Question("social_responsibility", "textarea", <<>>, FALSE, "ethics") >>

\* switch (category)
CategoryQuestionsListedOnly(category) ==
    IF category = Str(FoodBeverages) THEN FoodQuestions
    ELSE IF category = Str(CosmeticsCare) THEN CosmeticsQuestions
    ELSE IF category = Str(SupplementsVitamins) THEN SupplementsQuestions
    ELSE IF category = Str(Other) THEN DefaultQuestions
    ELSE <<>>

CategoryQuestions(category) ==
    IF category = Str(FoodBeverages) THEN FoodQuestions
    ELSE IF category = Str(CosmeticsCare) THEN CosmeticsQuestions
    ELSE IF category = Str(SupplementsVitamins) THEN SupplementsQuestions
    ELSE DefaultQuestions

OrganicTriggerCaseSensitive(ingredients) ==
    Truthy(ingredients) /\ includes(ingredients.str, organic)

\* ingredients && ingredients.toLowerCase().includes('organic')
OrganicTrigger(ingredients) ==
    Truthy(ingredients) /\ includes(toLowerCase(ingredients.str), organic)

generateFollowUpQuestionsOrganicLast(fd) ==
    CategoryQuestions(Get(fd, "category"))
        \o SupplyChainQuestions
        \o (IF OrganicTrigger(Get(fd, "ingredients")) THEN <<OrganicQuestion>> ELSE <<>>)

generateFollowUpQuestions(fd) ==
    CategoryQuestions(Get(fd, "category"))
        \o (IF OrganicTrigger(Get(fd, "ingredients")) THEN <<OrganicQuestion>> ELSE <<>>)
        \o SupplyChainQuestions

----------------------------------------------------------------------------
(* Completeness scorer (aiService.calculateTransparencyScore) *)

\* requiredFields.forEach: counted, and never read afterwards
completedFields(fd) ==
    Cardinality({i \in 1..Len(requiredFields) : TrimTruthy(Get(fd, requiredFields[i]))})

DepthPointsTrimFirst(v) ==
    IF ~TrimTruthy(v) THEN 0
    ELSE IF LongerThan(v, 100) THEN 10
    ELSE IF LongerThan(v, 50) THEN 8
    ELSE IF LongerThan(v, 20) THEN 6
    ELSE 3

\* the if / else-if chain applied to description, ingredients, sourcing, manufacturing
DepthPoints(v) ==
    IF LongerThan(v, 100) THEN 10
    ELSE IF LongerThan(v, 50) THEN 8
    ELSE IF LongerThan(v, 20) THEN 6
    ELSE IF TrimTruthy(v) THEN 3
    ELSE 0

\* formData.certifications && formData.certifications.length > 50
CertificationBonus(fd) ==
    LET c == Get(fd, "certifications")
    IN  IF Truthy(c) /\ Len(c.str) > 50 THEN 15 ELSE 0

DynamicKeysPresent(fd) ==
    {k \in DOMAIN fd : k \notin Range(requiredFields) /\ fd[k].kind # "undefined"}

\* the keys the Object.keys(formData) loop scores
DynamicKeys(fd) ==
    {k \in DOMAIN fd : /\ k \notin Range(requiredFields)
                       /\ Truthy(fd[k])
                       /\ Len(trim(toString(fd[k]))) > 0}

DynamicPointsShifted(v) ==
    IF Len(toString(v)) > 100 THEN 5
    ELSE IF Len(toString(v)) > 50 THEN 3
    ELSE 1

DynamicPoints(v) ==
    IF Len(toString(v)) > 50 THEN 5
    ELSE IF Len(toString(v)) > 20 THEN 3
    ELSE 1

\* what the Object.keys(formData) loop adds to score
RECURSIVE DynamicScore(_, _)
DynamicScore(fd, keys) ==
    IF keys = {} THEN 0
    ELSE LET k == CHOOSE x \in keys : TRUE
         IN  DynamicPoints(fd[k]) + DynamicScore(fd, keys \ {k})

\* the local variable score before the final ratio
RawScore(fd) ==
    DepthPoints(Get(fd, "description")) + DepthPoints(Get(fd, "ingredients"))
        + DepthPoints(Get(fd, "sourcing")) + DepthPoints(Get(fd, "manufacturing"))
        + CertificationBonus(fd)
        + DynamicScore(fd, DynamicKeys(fd))

MaxScoreDynamicOnly(fd) == 5 * Cardinality(DynamicKeys(fd))

\* the local variable maxScore before the final ratio
MaxScore(fd) ==
    Len(requiredFields) * 10 + 15 + 5 * Cardinality(DynamicKeys(fd))

\* the value that stands for NaN
NaN == -1

\* Math.round((score / maxScore) * 100): halves round up; 0/0 is NaN and
\* x/0 is Infinity, which Math.min(100, ...) then cuts to 100
RoundedRatio(score, maxScore) ==
    IF maxScore = 0
    THEN (IF score = 0 THEN NaN ELSE 1000000)
    ELSE (200 * score + maxScore) \div (2 * maxScore)

\* Math.min(100, Math.max(0, x)); NaN stays NaN
Clamp(x) ==
    IF x = NaN THEN NaN ELSE IF x < 0 THEN 0 ELSE IF x > 100 THEN 100 ELSE x

calculateTransparencyScore(fd) ==
    [kind |-> "score",
     score |-> Clamp(RoundedRatio(RawScore(fd), MaxScore(fd))),
     rawScore |-> RawScore(fd),
     maxScore |-> MaxScore(fd)]

----------------------------------------------------------------------------
(* Insight generator (aiService.generateInsights) *)

TierExcellent == "Excellent transparency! Your product demonstrates high levels of openness and accountability."
TierGood == "Good transparency with room for improvement in some areas."
TierNeedsDetail == "Consider providing more detailed information to improve transparency."
NutritionAdvisory == "Consider adding detailed nutritional information to help consumers make informed choices."
AllergenAdvisory == "Allergen testing information would enhance consumer trust and safety."
AnimalTestingAdvisory == "Clear animal testing policies are increasingly important to consumers."
SupplierAuditAdvisory == "Regular supplier audits demonstrate commitment to quality and ethical sourcing."
TraceabilityAdvisory == "Implementing supply chain traceability can significantly improve transparency scores."

TierMessageStrict(score) ==
    IF score > 80 THEN TierExcellent
    ELSE IF score > 60 THEN TierGood
    ELSE TierNeedsDetail

TierMessage(score) ==
    IF score >= 80 THEN TierExcellent
    ELSE IF score >= 60 THEN TierGood
    ELSE TierNeedsDetail

When(cond, msg) == IF cond THEN <<msg>> ELSE <<>>

generateInsightsUniversalFirst(fd, score) ==
    <<TierMessage(score)>>
        \o When(~Truthy(Get(fd, "supplier_audits"))
                    \/ Get(fd, "supplier_audits") = Str(Never), SupplierAuditAdvisory)
        \o When(~Truthy(Get(fd, "traceability"))
                    \/ Get(fd, "traceability") = Str(NoTraceability), TraceabilityAdvisory)
        \o When(Get(fd, "category") = Str(FoodBeverages)
                    /\ ~Truthy(Get(fd, "nutritional_info")), NutritionAdvisory)
        \o When(Get(fd, "category") = Str(FoodBeverages)
                    /\ ~Truthy(Get(fd, "allergen_testing")), AllergenAdvisory)
        \o When(Get(fd, "category") = Str(CosmeticsCare)
                    /\ ~Truthy(Get(fd, "animal_testing")), AnimalTestingAdvisory)

generateInsights(fd, score) ==
    <<TierMessage(score)>>
        \o When(Get(fd, "category") = Str(FoodBeverages)
                    /\ ~Truthy(Get(fd, "nutritional_info")), NutritionAdvisory)
        \o When(Get(fd, "category") = Str(FoodBeverages)
                    /\ ~Truthy(Get(fd, "allergen_testing")), AllergenAdvisory)
        \o When(Get(fd, "category") = Str(CosmeticsCare)
                    /\ ~Truthy(Get(fd, "animal_testing")), AnimalTestingAdvisory)
        \o When(~Truthy(Get(fd, "supplier_audits"))
                    \/ Get(fd, "supplier_audits") = Str(Never), SupplierAuditAdvisory)
        \o When(~Truthy(Get(fd, "traceability"))
                    \/ Get(fd, "traceability") = Str(NoTraceability), TraceabilityAdvisory)

----------------------------------------------------------------------------
(* Local fallback branches of the microservice client *)

\* catch branch of generateFollowUpQuestions
fallbackQuestions(fd) ==
    IF Get(fd, "category") = Str(FoodBeverages)
    THEN << FoodQuestions[1], FoodQuestions[4] >>
    ELSE IF Get(fd, "category") = Str(CosmeticsCare)
    THEN << CosmeticsQuestions[1], CosmeticsQuestions[2] >>
    ELSE << DefaultQuestions[1] >>

FallbackFieldPointsPresence(value) ==
    IF Truthy(value) /\ Len(trim(value.str)) > 0 THEN 10 ELSE 0

\* body of the requiredFields.forEach of the catch branch
FallbackFieldPoints(value) ==
    IF Truthy(value) /\ Len(trim(value.str)) > 0
    THEN IF Len(value.str) > 100 THEN 10
         ELSE IF Len(value.str) > 50 THEN 8
         ELSE IF Len(value.str) > 20 THEN 6
         ELSE 3
    ELSE 0

RECURSIVE FallbackBasePoints(_, _)
FallbackBasePoints(fd, i) ==
    IF i = 0 THEN 0
    ELSE FallbackFieldPoints(Get(fd, requiredFields[i])) + FallbackBasePoints(fd, i - 1)

FallbackRawScore(fd) ==
    FallbackBasePoints(fd, Len(requiredFields)) + CertificationBonus(fd)

FallbackMaxScore(fd) == Len(requiredFields) * 10 + 15

\* catch branch of calculateTransparencyScoreWithFallback
fallbackScore(fd) ==
    [kind |-> "score",
     score |-> Clamp(IF FallbackMaxScore(fd) > 0
                     THEN RoundedRatio(FallbackRawScore(fd), FallbackMaxScore(fd))
                     ELSE 0),
     rawScore |-> FallbackRawScore(fd),
     maxScore |-> FallbackMaxScore(fd)]

\* catch branch of the microservice generateInsights
fallbackInsights(fd, score) ==
    <<TierMessage(score)>>
        \o When(Get(fd, "category") = Str(FoodBeverages)
                    /\ ~Truthy(Get(fd, "nutritional_info")), NutritionAdvisory)

----------------------------------------------------------------------------
(* Microservice client: apiCall and the remote operations *)

Pending == [kind |-> "pending"]
NoResponse == [kind |-> "none"]

\* fetch rejects
NetworkError == [kind |-> "networkError"]
\* a response: its ok flag, whether its body parses as JSON, and the parsed body
Http(ok, json, body) == [kind |-> "http", ok |-> ok, json |-> json, body |-> body]

\* apiCall throws: fetch rejected, !response.ok, or response.json() rejected
apiCallThrows(r) == r.kind = "networkError" \/ ~r.ok \/ ~r.json

\* response.success
EnvelopeSuccess(body) == "success" \in DOMAIN body /\ body.success

\* generateQuestions: response.data?.questions || []
generateQuestions(body) ==
    IF "data" \in DOMAIN body /\ "questions" \in DOMAIN body.data
    THEN body.data.questions
    ELSE <<>>

RemoteThrowsIgnoringEnvelope(r) == apiCallThrows(r)

\* the remote operation throws: apiCall throws, or !response.success
RemoteThrows(r) == apiCallThrows(r) \/ ~EnvelopeSuccess(r.body)

\* result.score and result.insights raise a TypeError when response.data is undefined
ReadsUndefined(o, r) == o \in {"score", "insights"} /\ "data" \notin DOMAIN r.body

\* what the try block returns when nothing in it throws
RemoteResult(o, r) ==
    IF o = "questions" THEN [kind |-> "questions", questions |-> generateQuestions(r.body)]
    ELSE IF o = "score" THEN [kind |-> "score", score |-> r.body.data.score]
    ELSE [kind |-> "insights", insights |-> r.body.data.insights]

\* what the catch block returns
FallbackResult(o, fd, score) ==
    IF o = "questions" THEN [kind |-> "questions", questions |-> fallbackQuestions(fd)]
    ELSE IF o = "score" THEN fallbackScore(fd)
    ELSE [kind |-> "insights", insights |-> fallbackInsights(fd, score)]

----------------------------------------------------------------------------
(* Sampled inputs *)

OrganicGreenTea == <<"O", "r", "g", "a", "n", "i", "c", " ", "G", "r", "e", "e", "n", " ", "T", "e", "a">>
OrganicTeaLeaves == <<"O", "r", "g", "a", "n", "i", "c", " ", "g", "r", "e", "e", "n", " ", "t", "e", "a", " ", "l", "e", "a", "v", "e", "s">>
UpperOrganic == <<"W", "I", "T", "H", " ", "O", "R", "G", "A", "N", "I", "C", " ", "O", "A", "T", "S">>
MixedOrganic == <<"1", "0", "0", "%", " ", "O", "r", "G", "a", "N", "i", "C", " ", "c", "o", "t", "t", "o", "n">>
Inorganic == <<"i", "n", "o", "r", "g", "a", "n", "i", "c", " ", "s", "a", "l", "t", "s">>
GreenTea == <<"g", "r", "e", "e", "n", " ", "t", "e", "a", " ", "l", "e", "a", "v", "e", "s">>
SplitOrganic == <<"o", "r", "g", "a", "n", " ", "i", "c", " ", "t", "e", "a">>
Toys == <<"T", "o", "y", "s">>
Quarterly == <<"Q", "u", "a", "r", "t", "e", "r", "l", "y">>
CompleteTraceability == <<"C", "o", "m", "p", "l", "e", "t", "e", " ", "t", "r", "a", "c", "e", "a", "b", "i", "l", "i", "t", "y">>

Empty == Str(<<>>)

\* strings on both sides of every length threshold, and whitespace-only strings
Samples ==
    {Empty, Str(Blank(3)), Str(Blank(25)), Str(Text(1)), Str(Text(20)), Str(Text(21)),
     Str(Text(50)), Str(Text(51)), Str(Text(100)), Str(Text(LongLen))}

CategorySamples ==
    {Str(c) : c \in Range(categories)} \cup {Empty, Str(Toys), Undefined}

IngredientSamples ==
    {Empty, Undefined, Str(OrganicTeaLeaves), Str(UpperOrganic), Str(MixedOrganic),
     Str(Inorganic), Str(GreenTea), Str(SplitOrganic)}

\* ids of generated questions, the keys of dynamic answers
DynIds == <<"nutritional_info", "allergen_testing", "animal_testing", "supplier_audits",
            "traceability", "social_responsibility", "organic_certification",
            "preservatives", "shelf_life", "skin_type">>

DynKeys == {DynIds[i] : i \in 1..MaxDyn}

Form(name, cat, brand, desc, ingr, src, manu, cert) ==
    ("productName" :> name) @@ ("category" :> cat) @@ ("brand" :> brand)
        @@ ("description" :> desc) @@ ("ingredients" :> ingr) @@ ("sourcing" :> src)
        @@ ("manufacturing" :> manu) @@ ("certifications" :> cert)

\* formData with key k set to v
Put(fd, k, v) == [x \in DOMAIN fd \cup {k} |-> IF x = k THEN v ELSE fd[x]]

\* formData with the first n dynamic keys answered by v
Answered(fd, n, v) == [x \in DOMAIN fd \cup {DynIds[i] : i \in 1..n} |->
                          IF x \in DOMAIN fd THEN fd[x] ELSE v]

EmptyForm == Form(Empty, Empty, Empty, Empty, Empty, Empty, Empty, Empty)

FullForm ==
    Form(Str(Text(LongLen)), Str(Text(LongLen)), Str(Text(LongLen)), Str(Text(LongLen)),
         Str(Text(LongLen)), Str(Text(LongLen)), Str(Text(LongLen)), Str(Text(51)))

\* every depth field at the same sample, with 0, 3 or MaxDyn dynamic answers
UniformInputs ==
    {Answered(Form(name, Str(FoodBeverages), name, d, d, d, d, cert), n, Str(Text(51))) :
        name \in {Empty, Str(OrganicGreenTea)}, d \in Samples,
        cert \in {Empty, Str(Text(50)), Str(Text(51))}, n \in {0, 3, MaxDyn}}

\* the empty and the full form with one field varied
OneOffInputs ==
    {Put(base, k, v) :
        base \in {EmptyForm, FullForm},
        k \in {"description", "ingredients", "sourcing", "manufacturing", "certifications"}
              \cup DynKeys,
        v \in Samples}

\* product name and category filled, ingredients varied
GeneratorInputs ==
    {Form(Str(OrganicGreenTea), cat, Empty, Empty, ingr, Empty, Empty, Empty) :
        cat \in CategorySamples, ingr \in IngredientSamples}

AnswerSamples == {Undefined, Empty, Str(Text(5))}

InsightInputs ==
    {Put(Put(Put(Put(Put(Form(Str(OrganicGreenTea), cat, Empty, Empty, Empty, Empty, Empty, Empty),
         "nutritional_info", a[1]), "allergen_testing", a[2]), "animal_testing", a[3]),
         "supplier_audits", audits), "traceability", trace) :
        cat \in {Str(FoodBeverages), Str(CosmeticsCare), Str(Other)},
        a \in {<<x, x, x>> : x \in AnswerSamples}
                 \cup {<<Str(Text(5)), Undefined, Undefined>>,
                       <<Undefined, Str(Text(5)), Undefined>>,
                       <<Undefined, Undefined, Str(Text(5))>>},
        audits \in {Undefined, Str(Never), Str(Quarterly)},
        trace \in {Undefined, Str(NoTraceability), Str(CompleteTraceability)}}

\* the full form with 3 or MaxDyn dynamic answers of more than 50 characters
FullAnsweredInputs == {Answered(FullForm, n, Str(Text(51))) : n \in {3, MaxDyn}}

\* a long product name and a category, nothing else
NameCategoryInputs ==
    {Form(Str(Text(LongLen)), Str(cat), Empty, Empty, Empty, Empty, Empty, Empty) :
        cat \in Range(categories)}

Inputs ==
    UniformInputs \cup OneOffInputs \cup GeneratorInputs \cup InsightInputs
        \cup FullAnsweredInputs \cup NameCategoryInputs

\* scores on both sides of the tier thresholds
ScoreSamples == {0, 59, 60, 79, 80, 100}

\* answers that may be added to an unanswered field
AddedAnswers == {Str(Blank(3)), Str(Text(1)), Str(Text(21)), Str(Text(51)), Str(Text(LongLen))}

AnswerKeys == Range(requiredFields) \cup {"certifications"} \cup DynKeys

RemoteQuestionList == <<Question("remote_question", "text", <<>>, TRUE, "remote")>>

RemoteScore ==
    [score |-> 88, max_score |-> 100, raw_score |-> 88,
     insights |-> <<"Remote insight">>, timestamp |-> 1]

\* replies of the remote service to one request
Replies(o) ==
    {NetworkError,
     Http(FALSE, TRUE, [error |-> "Internal server error"]),
     Http(TRUE, FALSE, [error |-> "Unexpected token"]),
     Http(TRUE, TRUE, [success |-> FALSE, error |-> "Service failure"]),
     Http(TRUE, TRUE, [success |-> TRUE,
                       data |-> IF o = "questions"
                                THEN [questions |-> RemoteQuestionList, count |-> 1]
                                ELSE RemoteScore]),
     IF o = "questions"
     THEN Http(TRUE, TRUE, [success |-> TRUE, questions |-> RemoteQuestionList, count |-> 1])
     ELSE Http(TRUE, TRUE, [success |-> TRUE, result |-> RemoteScore])}

----------------------------------------------------------------------------
(* The engine: local operations and the client's operations on one input *)

NoResult == [kind |-> "none"]

\* the form's variables while no form is mounted
FormIdle ==
    /\ currentUser = FALSE
    /\ currentStep = 0
    /\ dynamicQuestions = <<>>
    /\ isGeneratingQuestions = FALSE
    /\ isSubmitting = FALSE
    /\ insights = <<>>
    /\ isSubmitted = FALSE
    /\ generating = <<>>
    /\ submitPhase = "idle"
    /\ submitData = <<>>
    /\ error = "none"
    /\ mockSubmissions = <<>>

Init ==
    /\ formData \in Inputs
    /\ pc = "Idle"
    /\ op = "none"
    /\ scoreArg = -1
    /\ scoreFrom = "none"
    /\ result = NoResult
    /\ prevScore = -1
    /\ added = <<>>
    /\ response = NoResponse
    /\ requests = 0
    /\ path = "none"
    /\ FormIdle

\* aiService.generateFollowUpQuestions(formData)
LocalQuestions ==
    /\ pc = "Idle"
    /\ pc' = "Done"
    /\ op' = "questions"
    /\ result' = [kind |-> "questions", questions |-> generateFollowUpQuestions(formData)]
    /\ path' = "local"
    /\ UNCHANGED formVars
    /\ UNCHANGED <<formData, scoreArg, scoreFrom, prevScore, added, response, requests>>

\* aiService.calculateTransparencyScore(formData)
LocalScore ==
    /\ pc = "Idle"
    /\ pc' = "Done"
    /\ op' = "score"
    /\ result' = calculateTransparencyScore(formData)
    /\ path' = "local"
    /\ UNCHANGED formVars
    /\ UNCHANGED <<formData, scoreArg, scoreFrom, prevScore, added, response, requests>>

\* aiService.generateInsights(formData, score), with any score or with the score
\* just computed for the same form data
LocalInsights ==
    /\ \/ pc = "Idle" /\ scoreArg' \in ScoreSamples /\ scoreFrom' = "sample"
       \/ pc = "Done" /\ op = "score" /\ added = <<>> /\ result.score # NaN
             /\ scoreArg' = result.score /\ scoreFrom' = "local"
    /\ pc' = "Done"
    /\ op' = "insights"
    /\ result' = [kind |-> "insights", insights |-> generateInsights(formData, scoreArg')]
    /\ path' = "local"
    /\ UNCHANGED formVars
    /\ UNCHANGED <<formData, prevScore, added, response, requests>>

\* a non-empty answer is added to an unanswered field and the form data is scored again
AddAnswer ==
    /\ pc = "Done" /\ op = "score" /\ added = <<>> /\ result.score # NaN
    /\ \E k \in AnswerKeys, v \in AddedAnswers :
          /\ ~Truthy(Get(formData, k))
          /\ formData' = Put(formData, k, v)
          /\ added' = <<k, v>>
    /\ prevScore' = result.score
    /\ result' = calculateTransparencyScore(formData')
    /\ UNCHANGED formVars
    /\ UNCHANGED <<pc, op, scoreArg, scoreFrom, response, requests, path>>

\* a wrapper of the microservice client is called and apiCall issues the request:
\* any wrapper with any score, or generateInsights with the score just returned by
\* calculateTransparencyScoreWithFallback
Invoke ==
    /\ \/ /\ pc = "Idle"
          /\ \E o \in {"questions", "score", "insights"} :
                /\ op' = o
                /\ scoreArg' \in (IF o = "insights" THEN ScoreSamples ELSE {-1})
                /\ scoreFrom' = (IF o = "insights" THEN "sample" ELSE "none")
       \/ /\ pc = "Success" /\ op = "score"
          /\ op' = "insights"
          /\ scoreArg' = result.score
          /\ scoreFrom' = path
    /\ pc' = "RemoteAttempt"
    /\ response' = Pending
    /\ requests' = 1
    /\ result' = NoResult
    /\ path' = "none"
    /\ UNCHANGED formVars
    /\ UNCHANGED <<formData, prevScore, added>>

\* the remote service answers, or the request fails
RemoteReply ==
    /\ pc = "RemoteAttempt"
    /\ response = Pending
    /\ response' \in Replies(op)
    /\ UNCHANGED formVars
    /\ UNCHANGED <<formData, pc, op, scoreArg, scoreFrom, result, prevScore, added,
                   requests, path>>

\* the awaited call settles: the try block returns, or control enters the catch block
Settle ==
    /\ pc = "RemoteAttempt"
    /\ response # Pending
    /\ IF RemoteThrows(response) \/ ReadsUndefined(op, response)
       THEN /\ pc' = "FallbackAttempt"
            /\ UNCHANGED <<result, path>>
       ELSE /\ pc' = "Success"
            /\ result' = RemoteResult(op, response)
            /\ path' = "remote"
    /\ response' = NoResponse
    /\ UNCHANGED formVars
    /\ UNCHANGED <<formData, op, scoreArg, scoreFrom, prevScore, added, requests>>

FallbackAfterRetry ==
    /\ pc = "FallbackAttempt"
    /\ IF requests < 2
       THEN /\ pc' = "RemoteAttempt"
            /\ response' = Pending
            /\ requests' = requests + 1
            /\ UNCHANGED <<result, path>>
       ELSE /\ pc' = "Success"
            /\ result' = FallbackResult(op, formData, scoreArg)
            /\ path' = "fallback"
            /\ UNCHANGED <<response, requests>>
    /\ UNCHANGED formVars
    /\ UNCHANGED <<formData, op, scoreArg, scoreFrom, prevScore, added>>

\* the catch block computes the local result
Fallback ==
    /\ pc = "FallbackAttempt"
    /\ pc' = "Success"
    /\ result' = FallbackResult(op, formData, scoreArg)
    /\ path' = "fallback"
    /\ UNCHANGED formVars
    /\ UNCHANGED <<formData, op, scoreArg, scoreFrom, prevScore, added, response, requests>>

Next ==
    \/ LocalQuestions
    \/ LocalScore
    \/ LocalInsights
    \/ AddAnswer
    \/ Invoke
    \/ RemoteReply
    \/ Settle
    \/ Fallback

Spec == Init /\ [][Next]_vars

\* the same steps, where the client's own steps are not postponed forever; the
\* remote service is under no obligation to answer
FairSpec == Spec /\ WF_vars(Settle) /\ WF_vars(Fallback)

----------------------------------------------------------------------------
(* ProductForm: the multi-step submission form *)

\* bound on the question generations in flight at one time
MaxInFlight == 2

\* the field names of initialSteps; every one of them is required
initialSteps ==
    << <<"productName", "category", "brand", "description">>,
       <<"ingredients", "sourcing">>,
       <<"manufacturing", "certifications">> >>

pending == <<"p", "e", "n", "d", "i", "n", "g">>
completed == <<"c", "o", "m", "p", "l", "e", "t", "e", "d">>

\* new Date().toISOString(): 24 characters, none of them white space
IsoTimestamp == Text(24)

NoEntries == [x \in {} |-> Empty]

\* the initial value of the formData state
InitialFormData ==
    Form(Empty, Empty, Empty, Empty, Empty, Empty, Empty, Empty)
        @@ ("dynamicResponses" :> Obj(NoEntries)) @@ ("insights" :> Arr(<<>>))
        @@ ("transparencyScore" :> Num(0)) @@ ("submittedAt" :> Empty)
        @@ ("status" :> Str(pending))

\* what the user types or selects in a field of the first three steps that holds
\* current: an empty field is filled, a blank product name is corrected, the
\* category is changed from Food & Beverages to Cosmetics & Personal Care, and
\* the brand is typed or cleared
FieldValues(name, current) ==
    IF name = "productName"
    THEN IF current = Empty THEN {Str(Blank(3)), Str(OrganicGreenTea)}
         ELSE IF current = Str(Blank(3)) THEN {Str(OrganicGreenTea)}
         ELSE {}
    ELSE IF name = "category"
    THEN IF current = Empty THEN {Str(FoodBeverages), Str(CosmeticsCare)}
         ELSE IF current = Str(FoodBeverages) THEN {Str(CosmeticsCare)}
         ELSE {}
    ELSE IF name = "brand"
    THEN IF current = Empty THEN {Str(Text(5))} ELSE {Empty}
    ELSE IF current # Empty THEN {}
    ELSE IF name = "ingredients" THEN {Str(GreenTea)}
    ELSE {Str(Text(5))}

\* what the user enters for a generated question whose answer is current: one of
\* the options of a select; blank text, then corrected, in a textarea
AnswerValues(q, current) ==
    IF current = Undefined
    THEN IF q.type = "select" THEN {Str(Text(5))} ELSE {Str(Blank(3)), Str(Text(5))}
    ELSE IF current = Str(Blank(3)) THEN {Str(Text(5))}
    ELSE {}

totalSteps(questions) == Len(initialSteps) + (IF Len(questions) > 0 THEN 1 ELSE 0)

AnsweredQuestionAnyText(fd, id) ==
    LET entries == fd["dynamicResponses"].entries
    IN  id \in DOMAIN entries /\ Truthy(entries[id])

\* formData.dynamicResponses[id] && formData.dynamicResponses[id].trim() !== ''
AnsweredQuestion(fd, id) ==
    LET entries == fd["dynamicResponses"].entries
    IN  id \in DOMAIN entries /\ TrimTruthy(entries[id])

validateStep(step, fd, questions) ==
    IF step >= Len(initialSteps)
    THEN \A i \in 1..Len(questions) :
            questions[i].required => AnsweredQuestion(fd, questions[i].id)
    ELSE \A name \in Range(initialSteps[step + 1]) :
            fd[name].kind = "string" /\ Len(trim(fd[name].str)) > 0

\* the effect on [currentStep, formData.category, formData.productName] runs
\* generateDynamicQuestions after a render that took the form from (step, fd) to
\* (step2, fd2)
useEffect(step, fd, step2, fd2) ==
    /\ step # step2 \/ fd["category"] # fd2["category"]
                    \/ fd["productName"] # fd2["productName"]
    /\ step2 = Len(initialSteps) - 1
    /\ Truthy(fd2["category"])
    /\ Truthy(fd2["productName"])

\* a generation in flight: the formData it captured, and whether its 2000 ms
\* timer was started while the 1500 ms timer of the scorer or the 1000 ms timer
\* of saveProductSubmission was pending. setTimeout runs a timer after every
\* timer started before it with an equal or shorter delay, so such a generation
\* resolves after the awaited score or save.
Generation(fd, phase) == [formData |-> fd, held |-> phase # "idle"]

\* the awaited timer of handleSubmit has fired: no generation waits for it
Released(gens) == [i \in 1..Len(gens) |-> [gens[i] EXCEPT !.held = FALSE]]

\* a state update and the effect that follows it, with gens in flight and
\* handleSubmit in phase; a started generation captures the rendered formData
RenderDuring(step2, fd2, gens, phase) ==
    /\ currentStep' = step2
    /\ formData' = fd2
    /\ IF useEffect(currentStep, formData, step2, fd2)
       THEN /\ Len(gens) < MaxInFlight
            /\ isGeneratingQuestions' = TRUE
            /\ generating' = Append(gens, Generation(fd2, phase))
       ELSE /\ generating' = gens
            /\ UNCHANGED isGeneratingQuestions

Render(step2, fd2) == RenderDuring(step2, fd2, generating, submitPhase)

\* the user fills the generated questions from the first to the last
InListOrder(i) ==
    \A j \in 1..(i - 1) :
        dynamicQuestions[j].required => AnsweredQuestion(formData, dynamicQuestions[j].id)

handleInputChange ==
    /\ ~isSubmitted
    /\ \/ /\ currentStep < Len(initialSteps)
          /\ \E name \in Range(initialSteps[currentStep + 1]) :
                \E value \in FieldValues(name, formData[name]) :
                    Render(currentStep, [formData EXCEPT ![name] = value])
       \/ /\ currentStep >= Len(initialSteps)
          /\ ~isGeneratingQuestions
          /\ \E i \in 1..Len(dynamicQuestions) :
                LET entries == formData["dynamicResponses"].entries
                    id == dynamicQuestions[i].id
                IN  \E value \in AnswerValues(dynamicQuestions[i], Get(entries, id)) :
                        /\ InListOrder(i)
                        /\ Render(currentStep,
                                  [formData EXCEPT !["dynamicResponses"] =
                                      Obj(Put(entries, id, value))])
    /\ UNCHANGED <<currentUser, dynamicQuestions, isSubmitting, insights, isSubmitted,
                   submitPhase, submitData, error, mockSubmissions>>
    /\ UNCHANGED engineVars

handleNextUnvalidated ==
    /\ ~isSubmitted
    /\ currentStep < totalSteps(dynamicQuestions) - 1
    /\ ~isGeneratingQuestions
    /\ Render(currentStep + 1, formData)
    /\ UNCHANGED <<currentUser, dynamicQuestions, isSubmitting, insights, isSubmitted,
                   submitPhase, submitData, error, mockSubmissions>>
    /\ UNCHANGED engineVars

handleNextWhileGenerating ==
    /\ ~isSubmitted
    /\ currentStep < totalSteps(dynamicQuestions) - 1
    /\ validateStep(currentStep, formData, dynamicQuestions)
    /\ Render(currentStep + 1, formData)
    /\ UNCHANGED <<currentUser, dynamicQuestions, isSubmitting, insights, isSubmitted,
                   submitPhase, submitData, error, mockSubmissions>>
    /\ UNCHANGED engineVars

\* the Next button
handleNext ==
    /\ ~isSubmitted
    /\ currentStep < totalSteps(dynamicQuestions) - 1
    /\ validateStep(currentStep, formData, dynamicQuestions)
    /\ ~isGeneratingQuestions
    /\ Render(currentStep + 1, formData)
    /\ UNCHANGED <<currentUser, dynamicQuestions, isSubmitting, insights, isSubmitted,
                   submitPhase, submitData, error, mockSubmissions>>
    /\ UNCHANGED engineVars

\* the Previous button
handleBack ==
    /\ ~isSubmitted
    /\ currentStep # 0
    /\ Render(currentStep - 1, formData)
    /\ UNCHANGED <<currentUser, dynamicQuestions, isSubmitting, insights, isSubmitted,
                   submitPhase, submitData, error, mockSubmissions>>
    /\ UNCHANGED engineVars

\* the oldest generation in flight resolves: the rest of generateDynamicQuestions
generateDynamicQuestions ==
    /\ generating # <<>>
    /\ ~Head(generating).held
    /\ LET NotNumber(q) == q.type # "number"
       IN  dynamicQuestions' =
               SelectSeq(generateFollowUpQuestions(Head(generating).formData), NotNumber)
    /\ isGeneratingQuestions' = FALSE
    /\ generating' = Tail(generating)
    /\ UNCHANGED <<formData, currentUser, currentStep, isSubmitting, insights, isSubmitted,
                   submitPhase, submitData, error, mockSubmissions>>
    /\ UNCHANGED engineVars

handleSubmitUnguarded ==
    /\ currentStep >= totalSteps(dynamicQuestions) - 1
    /\ validateStep(currentStep, formData, dynamicQuestions)
    /\ IF ~currentUser
       THEN UNCHANGED <<isSubmitting, submitPhase, submitData, error>>
       ELSE /\ isSubmitting' = TRUE
            /\ submitPhase' = "scoring"
            /\ submitData' = formData
            /\ error' = "none"
    /\ UNCHANGED <<formData, currentUser, currentStep, dynamicQuestions,
                   isGeneratingQuestions, insights, isSubmitted, generating,
                   mockSubmissions>>
    /\ UNCHANGED engineVars

\* the Generate Report button: handleSubmit up to its first await
handleSubmit ==
    /\ ~isSubmitted
    /\ currentStep >= totalSteps(dynamicQuestions) - 1
    /\ ~isSubmitting
    /\ ~isGeneratingQuestions
    /\ validateStep(currentStep, formData, dynamicQuestions)
    /\ IF ~currentUser
       THEN UNCHANGED <<isSubmitting, submitPhase, submitData, error>>
       ELSE /\ isSubmitting' = TRUE
            /\ submitPhase' = "scoring"
            /\ submitData' = formData
            /\ error' = "none"
    /\ UNCHANGED <<formData, currentUser, currentStep, dynamicQuestions,
                   isGeneratingQuestions, insights, isSubmitted, generating,
                   mockSubmissions>>
    /\ UNCHANGED engineVars

\* the checks of saveProductSubmission before its await
SaveAccepts(fd) ==
    /\ \A name \in Range(initialSteps[1]) \cup Range(initialSteps[2])
                       \cup Range(initialSteps[3]) :
            Truthy(fd[name]) /\ ~(fd[name].kind = "string" /\ trim(fd[name].str) = <<>>)
    /\ DOMAIN fd["dynamicResponses"].entries # {}

\* the submission object saveProductSubmission builds
Submission(fd) ==
    [productName |-> fd["productName"], brand |-> fd["brand"],
     category |-> fd["category"], description |-> fd["description"],
     ingredients |-> fd["ingredients"], sourcing |-> fd["sourcing"],
     manufacturing |-> fd["manufacturing"], certifications |-> fd["certifications"],
     transparencyScore |-> fd["transparencyScore"], status |-> fd["status"],
     dynamicResponses |-> fd["dynamicResponses"], insights |-> fd["insights"]]

\* handleSubmit from the score to the await inside saveProductSubmission
handleSubmitScored ==
    /\ submitPhase = "scoring"
    /\ LET score == calculateTransparencyScore(submitData).score
           generatedInsights == generateInsights(submitData, score)
           updatedFormData ==
               [submitData EXCEPT !["transparencyScore"] = Num(score),
                                  !["insights"] = Arr(generatedInsights),
                                  !["submittedAt"] = Str(IsoTimestamp),
                                  !["status"] = Str(completed)]
       IN  /\ RenderDuring(currentStep, updatedFormData, Released(generating),
                            IF SaveAccepts(updatedFormData) THEN "saving" ELSE "idle")
           /\ insights' = generatedInsights
           /\ IF SaveAccepts(updatedFormData)
              THEN /\ submitPhase' = "saving"
                   /\ submitData' = updatedFormData
                   /\ UNCHANGED <<isSubmitting, error>>
              ELSE /\ submitPhase' = "idle"
                   /\ submitData' = <<>>
                   /\ isSubmitting' = FALSE
                   /\ error' = "save"
    /\ UNCHANGED <<currentUser, dynamicQuestions, isSubmitted, mockSubmissions>>
    /\ UNCHANGED engineVars

\* saveProductSubmission after its await, and the rest of handleSubmit
saveProductSubmission ==
    /\ submitPhase = "saving"
    /\ mockSubmissions' = Append(mockSubmissions, Submission(submitData))
    /\ isSubmitted' = TRUE
    /\ isSubmitting' = FALSE
    /\ submitPhase' = "idle"
    /\ submitData' = <<>>
    /\ generating' = Released(generating)
    /\ UNCHANGED <<formData, currentUser, currentStep, dynamicQuestions,
                   isGeneratingQuestions, insights, error>>
    /\ UNCHANGED engineVars

handleSubmitCatchDefaulted ==
    /\ submitPhase = "scoring"
    /\ error' = "score"
    /\ isSubmitting' = FALSE
    /\ submitPhase' = "idle"
    /\ submitData' = <<>>
    /\ formData' = [formData EXCEPT !["status"] = Str(completed)]
    /\ generating' = Released(generating)
    /\ UNCHANGED <<currentUser, currentStep, dynamicQuestions, isGeneratingQuestions,
                   insights, isSubmitted, mockSubmissions>>
    /\ UNCHANGED engineVars

\* the awaited score computation rejects: the catch and finally blocks of
\* handleSubmit
handleSubmitCatch ==
    /\ submitPhase = "scoring"
    /\ error' = "score"
    /\ isSubmitting' = FALSE
    /\ submitPhase' = "idle"
    /\ submitData' = <<>>
    /\ generating' = Released(generating)
    /\ UNCHANGED <<formData, currentUser, currentStep, dynamicQuestions,
                   isGeneratingQuestions, insights, isSubmitted, mockSubmissions>>
    /\ UNCHANGED engineVars

FormInit ==
    /\ formData = InitialFormData
    /\ pc = "Idle"
    /\ op = "none"
    /\ scoreArg = -1
    /\ scoreFrom = "none"
    /\ result = NoResult
    /\ prevScore = -1
    /\ added = <<>>
    /\ response = NoResponse
    /\ requests = 0
    /\ path = "none"
    /\ currentUser \in BOOLEAN
    /\ currentStep = 0
    /\ dynamicQuestions = <<>>
    /\ isGeneratingQuestions = FALSE
    /\ isSubmitting = FALSE
    /\ insights = <<>>
    /\ isSubmitted = FALSE
    /\ generating = <<>>
    /\ submitPhase = "idle"
    /\ submitData = <<>>
    /\ error = "none"
    /\ mockSubmissions = <<>>

FormNext ==
    \/ handleInputChange
    \/ handleNext
    \/ handleBack
    \/ generateDynamicQuestions
    \/ handleSubmit
    \/ handleSubmitScored
    \/ handleSubmitCatch
    \/ saveProductSubmission

FormSpec == FormInit /\ [][FormNext]_vars

\* the promise of saveProductSubmission rejects: its catch block rethrows, and
\* the catch and finally blocks of handleSubmit run
saveProductSubmissionCatch ==
    /\ submitPhase = "saving"
    /\ error' = "save"
    /\ isSubmitting' = FALSE
    /\ submitPhase' = "idle"
    /\ submitData' = <<>>
    /\ generating' = Released(generating)
    /\ UNCHANGED <<formData, currentUser, currentStep, dynamicQuestions,
                   isGeneratingQuestions, insights, isSubmitted, mockSubmissions>>
    /\ UNCHANGED engineVars

\* the form with a save that may fail
SaveFailureNext ==
    \/ handleInputChange
    \/ handleNext
    \/ handleBack
    \/ generateDynamicQuestions
    \/ handleSubmit
    \/ handleSubmitScored
    \/ handleSubmitCatch
    \/ saveProductSubmission
    \/ saveProductSubmissionCatch

SaveFailureSpec == FormInit /\ [][SaveFailureNext]_vars

----------------------------------------------------------------------------
(* Properties *)

\* C1: the score returned by the local scorer and by the fallback branch of
\* calculateTransparencyScoreWithFallback is an integer in 0..100, and maxScore is
\* not 0 when the ratio is computed.
C1_ScoreBounded ==
    (op = "score" /\ path \in {"local", "fallback"}) =>
        /\ result.score \in 0..100
        /\ result.maxScore # 0

\* the fallback branch returns the upper bound for the full form
C1_Witness == op = "score" /\ path = "fallback" /\ result.score = 100

\* a failed remote call: network error, non-2xx response, or success = false
RemoteFailed(r) ==
    \/ r.kind = "networkError"
    \/ r.kind = "http" /\ ~r.ok
    \/ r.kind = "http" /\ r.ok /\ r.json /\ "success" \in DOMAIN r.body /\ ~r.body.success

ReturnedValue(o, r) ==
    /\ o = "questions" => r.kind = "questions"
    /\ o = "score" => r.kind = "score" /\ r.score \in 0..100
    /\ o = "insights" => r.kind = "insights" /\ Len(r.insights) >= 1

\* C2: whenever the remote call fails, the wrapper enters its catch branch and
\* returns a result: a score in 0..100, an insight list of at least one string, a
\* question list.
C2_FailureFallsBack ==
    [][ /\ (pc = "RemoteAttempt" /\ response # Pending /\ RemoteFailed(response))
            => pc' = "FallbackAttempt"
        /\ pc = "FallbackAttempt"
            => (pc' = "Success" /\ path' = "fallback" /\ ReturnedValue(op, result')) ]_vars

\* the insight fallback returned the tier message alone
C2_Witness ==
    pc = "Success" /\ path = "fallback" /\ op = "insights" /\ Len(result.insights) = 1

\* C3: every invocation of the orchestrator eventually reaches a terminal state,
\* also when the remote service never responds.
C3_Terminates ==
    (pc = "RemoteAttempt" /\ op \in {"questions", "score"}) ~> (pc \in {"Success", "Failed"})

\* C4: adding a non-empty answer to an unanswered field never decreases the score.
C4_Monotone == added # <<>> => result.score >= prevScore

\* C4 as amended: adding a non-empty answer to one of the 7 base fields, or an
\* answer of more than 50 characters to any other field, never decreases the score.
C4_MonotoneAmended ==
    (added # <<>> /\ (added[1] \in Range(requiredFields) \/ Len(added[2].str) > 50))
        => result.score >= prevScore

\* a long dynamic answer raised the score
C4_Witness ==
    /\ added # <<>>
    /\ added[1] \in DynKeys
    /\ Len(added[2].str) > 50
    /\ result.score > prevScore

\* keys of formData outside the 7 base fields and certifications that hold an answer
ExtraAnswers(fd) ==
    {k \in DOMAIN fd \ (Range(requiredFields) \cup {"certifications"}) : Truthy(fd[k])}

\* C5: with all 7 base fields longer than 100 characters, certifications longer
\* than 50 and 3 dynamic answers longer than 50, the local score is exactly 100.
C5_FullScoreIs100 ==
    ( /\ op = "score" /\ path = "local"
      /\ \A k \in Range(requiredFields) : LongerThan(Get(formData, k), 100)
      /\ LongerThan(Get(formData, "certifications"), 50)
      /\ Cardinality(ExtraAnswers(formData)) = 3
      /\ \A k \in ExtraAnswers(formData) : LongerThan(formData[k], 50) )
        => result.score = 100

OrganicUpper == <<"O", "R", "G", "A", "N", "I", "C">>

\* the value holds the letters of "organic" in a row, each in either case
ContainsOrganic(v) ==
    /\ v.kind = "string"
    /\ \E i \in 1..(Len(v.str) - 6) :
          \A j \in 1..7 : v.str[i + j - 1] \in {organic[j], OrganicUpper[j]}

CountId(questions, id) == Cardinality({i \in 1..Len(questions) : questions[i].id = id})

\* C6: the returned question list holds exactly one organic_certification question
\* if ingredients contains "organic" in any letter case, and none otherwise.
C6_OrganicTrigger ==
    (op = "questions" /\ path \in {"local", "fallback"}) =>
        CountId(result.questions, "organic_certification")
            = (IF ContainsOrganic(Get(formData, "ingredients")) THEN 1 ELSE 0)

\* C6 as amended: the statement holds of the local generator; the list of the
\* client's fallback branch never holds an organic_certification question.
C6_OrganicTriggerAmended ==
    /\ (op = "questions" /\ path = "local") =>
          CountId(result.questions, "organic_certification")
              = (IF ContainsOrganic(Get(formData, "ingredients")) THEN 1 ELSE 0)
    /\ (op = "questions" /\ path = "fallback") =>
          CountId(result.questions, "organic_certification") = 0

\* upper-case ingredients trigger the question
C6_Witness ==
    /\ op = "questions" /\ path = "local"
    /\ Get(formData, "ingredients") = Str(UpperOrganic)
    /\ CountId(result.questions, "organic_certification") = 1

Ids(questions) == [i \in 1..Len(questions) |-> questions[i].id]

GreenTeaCase ==
    /\ op = "questions" /\ path = "local"
    /\ Get(formData, "category") = Str(FoodBeverages)
    /\ Get(formData, "ingredients") = Str(OrganicTeaLeaves)

\* C7: for Food & Beverages with ingredients "Organic green tea leaves" the
\* generator returns 8 questions with the ids nutritional_info, preservatives,
\* shelf_life, allergen_testing, organic_certification, supplier_audit_frequency,
\* traceability_level, social_responsibility.
C7_GreenTeaIds ==
    GreenTeaCase =>
        Ids(result.questions) =
            <<"nutritional_info", "preservatives", "shelf_life", "allergen_testing",
              "organic_certification", "supplier_audit_frequency", "traceability_level",
              "social_responsibility">>

\* C7 as amended: the sixth and seventh ids are supplier_audits and traceability.
C7_GreenTeaIdsAmended ==
    GreenTeaCase =>
        Ids(result.questions) =
            <<"nutritional_info", "preservatives", "shelf_life", "allergen_testing",
              "organic_certification", "supplier_audits", "traceability",
              "social_responsibility">>

C7_Witness == GreenTeaCase /\ Len(result.questions) = 8

TierMessages == {TierExcellent, TierGood, TierNeedsDetail}

\* C8: the list returned by generateInsights (local, and the client's fallback
\* branch) is non-empty, its first element is the tier message selected by the
\* thresholds 80 and 60, and no other element is a tier message.
C8_TierFirst ==
    (op = "insights" /\ path \in {"local", "fallback"}) =>
        /\ Len(result.insights) >= 1
        /\ scoreArg >= 80 => result.insights[1] = TierExcellent
        /\ (scoreArg >= 60 /\ scoreArg < 80) => result.insights[1] = TierGood
        /\ scoreArg < 60 => result.insights[1] = TierNeedsDetail
        /\ \A i \in 2..Len(result.insights) : result.insights[i] \notin TierMessages

\* a score of exactly 80 is excellent, with advisories after the tier message
C8_Witness ==
    /\ op = "insights" /\ path = "local" /\ scoreArg = 80
    /\ result.insights[1] = TierExcellent
    /\ Len(result.insights) = 3

\* only productName and category are filled
OnlyNameAndCategory(fd) ==
    /\ TrimTruthy(Get(fd, "productName"))
    /\ TrimTruthy(Get(fd, "category"))
    /\ \A k \in DOMAIN fd \ {"productName", "category"} : ~Truthy(fd[k])

Advisories ==
    {NutritionAdvisory, AllergenAdvisory, AnimalTestingAdvisory, SupplierAuditAdvisory,
     TraceabilityAdvisory}

\* insights computed from the score that the same path computed for the same input
ScoredCase(where) ==
    /\ op = "insights" /\ path = where /\ scoreFrom = where
    /\ OnlyNameAndCategory(formData)

\* C9: with only productName and category filled, the score is below 20 and the
\* insights are the needs-more-detail message followed by at least one advisory,
\* on the local engine and on the client's fallback path.
C9_SparseForm ==
    (ScoredCase("local") \/ ScoredCase("fallback")) =>
        /\ scoreArg < 20
        /\ result.insights[1] = TierNeedsDetail
        /\ Len(result.insights) >= 2
        /\ \A i \in 2..Len(result.insights) : result.insights[i] \in Advisories

\* C9 as amended: on the local engine the statement holds as given; on the
\* fallback path the score is below 20 and the insights are the needs-more-detail
\* message, followed by the nutrition advisory for Food & Beverages and by nothing
\* for any other category.
C9_SparseFormAmended ==
    /\ ScoredCase("local") =>
          /\ scoreArg < 20
          /\ result.insights[1] = TierNeedsDetail
          /\ Len(result.insights) >= 2
          /\ \A i \in 2..Len(result.insights) : result.insights[i] \in Advisories
    /\ ScoredCase("fallback") =>
          /\ scoreArg < 20
          /\ result.insights =
                (IF Get(formData, "category") = Str(FoodBeverages)
                 THEN <<TierNeedsDetail, NutritionAdvisory>>
                 ELSE <<TierNeedsDetail>>)

\* the fallback path returns the tier message alone for a cosmetics product
C9_Witness ==
    /\ ScoredCase("fallback")
    /\ Get(formData, "category") = Str(CosmeticsCare)
    /\ result.insights = <<TierNeedsDetail>>

\* the ids of the answers held by a dynamicResponses value
AnswerIds(responses) == DOMAIN responses.entries

\* C10: in the form, once no question generation is in flight, every key of
\* formData.dynamicResponses is the id of a question of the current
\* dynamicQuestions list, and so is every key of the dynamicResponses of a saved
\* submission with respect to the questions generated for the submission: answers
\* to the questions of a previous category are discarded.
C10_NoStaleAnswers ==
    /\ generating = <<>> =>
            AnswerIds(formData["dynamicResponses"]) \subseteq Range(Ids(dynamicQuestions))
    /\ \A i \in 1..Len(mockSubmissions) :
            AnswerIds(mockSubmissions[i].dynamicResponses)
                \subseteq Range(Ids(generateFollowUpQuestions(mockSubmissions[i])))

\* every required question of the list has a non-blank answer in the submission
RequiredAnswered(questions, submission) ==
    \A i \in 1..Len(questions) :
        questions[i].required =>
            LET entries == submission.dynamicResponses.entries
            IN  questions[i].id \in DOMAIN entries /\ TrimTruthy(entries[questions[i].id])

\* C11: whenever saveProductSubmission appends a submission, every required
\* question of the form's current dynamicQuestions list has a non-blank answer in
\* the dynamicResponses of that submission.
C11_SavedComplete ==
    [][Len(mockSubmissions') > Len(mockSubmissions) =>
          RequiredAnswered(dynamicQuestions, mockSubmissions'[Len(mockSubmissions')])]_vars

\* a submission was saved while the form shows required questions
C11_Witness ==
    /\ Len(mockSubmissions) = 1
    /\ \E i \in 1..Len(dynamicQuestions) : dynamicQuestions[i].required
    /\ RequiredAnswered(dynamicQuestions, mockSubmissions[1])

\* C12: after the score computation of handleSubmit raised, the catch block has
\* run and handleSubmit is over: no submission is saved, isSubmitted is false, and
\* formData still holds transparencyScore 0 and status pending.
C12_ScoreFailureSurfaced ==
    error = "score" =>
        /\ submitPhase = "idle"
        /\ ~isSubmitting
        /\ mockSubmissions = <<>>
        /\ ~isSubmitted
        /\ formData["transparencyScore"] = Num(0)
        /\ formData["status"] = Str(pending)
        /\ formData["insights"] = Arr(<<>>)

\* the score computation raised on the question step of a complete form
C12_Witness ==
    /\ error = "score"
    /\ currentStep = Len(initialSteps)
    /\ validateStep(currentStep, formData, dynamicQuestions)

\* a 2xx JSON reply in the documented envelope: success is true and the payload
\* is the top-level field named key
Documented(r, key) ==
    /\ r.kind = "http" /\ r.ok /\ r.json
    /\ EnvelopeSuccess(r.body)
    /\ key \in DOMAIN r.body

\* C13: when /generate-questions answers {success: true, questions: Q}, the
\* wrapper generateFollowUpQuestions ends in Success with exactly Q.
C13_DocumentedQuestions ==
    [][(pc = "RemoteAttempt" /\ op = "questions" /\ Documented(response, "questions"))
          => /\ pc' = "Success"
             /\ path' = "remote"
             /\ result'.questions = response.body.questions]_vars

\* C14: when /transparency-score answers {success: true, result: R},
\* calculateTransparencyScoreWithFallback goes from RemoteAttempt to Success
\* without entering FallbackAttempt and returns R.score.
C14_DocumentedScore ==
    [][(pc = "RemoteAttempt" /\ op = "score" /\ Documented(response, "result"))
          => /\ pc' = "Success"
             /\ path' = "remote"
             /\ result'.score = response.body.result.score]_vars

\* C15: at most one submission is ever appended, it carries one score, a number
\* in 0..100, and an execution of handleSubmit starts only while none is in
\* flight and nothing has been saved.
C15_SingleSubmission ==
    [][ /\ Len(mockSubmissions') <= 1
        /\ \A i \in 1..Len(mockSubmissions') :
              /\ mockSubmissions'[i].transparencyScore.kind = "number"
              /\ mockSubmissions'[i].transparencyScore.num \in 0..100
        /\ (submitPhase' = "scoring" /\ submitPhase # "scoring")
              => (submitPhase = "idle" /\ ~isSubmitting /\ mockSubmissions = <<>>) ]_vars

\* one submission was saved and the success screen is shown
C15_Witness ==
    /\ Len(mockSubmissions) = 1
    /\ isSubmitted
    /\ ~isSubmitting
    /\ mockSubmissions[1].transparencyScore = formData["transparencyScore"]

\* formData with every whitespace-only value replaced by the empty string
Blanked(fd) ==
    [k \in DOMAIN fd |->
        IF fd[k].kind = "string" /\ trim(fd[k].str) = <<>> THEN Empty ELSE fd[k]]

\* a result of the local scorer for formData
LocallyScored == pc = "Done" /\ op = "score" /\ path = "local"

\* C16: the local scorer treats a whitespace-only value of any length as empty:
\* score and maxScore are what they are for the same form with every
\* whitespace-only value emptied.
C16_WhitespaceIsEmpty ==
    LocallyScored =>
        /\ result.rawScore = calculateTransparencyScore(Blanked(formData)).rawScore
        /\ result.maxScore = calculateTransparencyScore(Blanked(formData)).maxScore

\* the base fields that are not depth-scored
IdentityFields == {"productName", "category", "brand"}

\* formData with productName, category and brand emptied
WithoutIdentity(fd) == [k \in DOMAIN fd |-> IF k \in IdentityFields THEN Empty ELSE fd[k]]

\* C17: in the local scorer the 7 base fields add 70 to maxScore, and the
\* presence of a base field is worth points of its own: a non-blank productName,
\* category or brand makes score larger than it is without them.
C17_PresencePoints ==
    LocallyScored =>
        /\ result.maxScore = 70 + 15 + 5 * Cardinality(DynamicKeys(formData))
        /\ (\E k \in IdentityFields : TrimTruthy(Get(formData, k)))
              => result.rawScore > calculateTransparencyScore(WithoutIdentity(formData)).rawScore

\* formData with certifications emptied
WithoutCertifications(fd) == [k \in DOMAIN fd |-> IF k = "certifications" THEN Empty ELSE fd[k]]

\* C18: in the local scorer certifications adds exactly 15 to score when it is
\* longer than 50 characters and nothing otherwise, and maxScore is the same
\* whatever certifications holds.
C18_CertificationsBonusOnly ==
    LocallyScored =>
        LET without == calculateTransparencyScore(WithoutCertifications(formData))
        IN  /\ result.rawScore - without.rawScore =
                  (IF LongerThan(Get(formData, "certifications"), 50) THEN 15 ELSE 0)
            /\ result.maxScore = without.maxScore

DepthFields == {"description", "ingredients", "sourcing", "manufacturing"}

\* formData with the four depth-scored fields emptied
WithoutDepth(fd) == [k \in DOMAIN fd |-> IF k \in DepthFields THEN Empty ELSE fd[k]]

\* the length of a value; a missing value has none
Length(v) == IF v.kind = "undefined" THEN 0 ELSE Len(toString(v))

\* the award for one depth field: by length above 20 characters, and 3 for a
\* shorter value that is not blank
Tier(v) ==
    IF Length(v) > 100 THEN 10
    ELSE IF Length(v) > 50 THEN 8
    ELSE IF Length(v) > 20 THEN 6
    ELSE IF Length(v) > 0 /\ TrimTruthy(v) THEN 3
    ELSE 0

\* C19: the four depth fields together add to score the sum of their tier
\* awards, each by its own length.
C19_DepthTiers ==
    LocallyScored =>
        result.rawScore - calculateTransparencyScore(WithoutDepth(formData)).rawScore
            = Tier(Get(formData, "description")) + Tier(Get(formData, "ingredients"))
                + Tier(Get(formData, "sourcing")) + Tier(Get(formData, "manufacturing"))

\* three fields longer than 100 characters and sourcing of 21 characters were scored
C19_Witness ==
    /\ LocallyScored
    /\ Length(Get(formData, "description")) > 100
    /\ Length(Get(formData, "ingredients")) > 100
    /\ Length(Get(formData, "manufacturing")) > 100
    /\ Length(Get(formData, "sourcing")) = 21
    /\ result.rawScore - calculateTransparencyScore(WithoutDepth(formData)).rawScore = 36

\* the keys outside the 7 base fields that hold a non-blank value
AnsweredEntries(fd) ==
    {k \in DOMAIN fd \ Range(requiredFields) : Length(fd[k]) > 0 /\ TrimTruthy(fd[k])}

\* formData without the keys outside the 7 base fields
BaseOnly(fd) == [k \in DOMAIN fd \cap Range(requiredFields) |-> fd[k]]

\* formData without the keys outside the 7 base fields that hold no answer
WithoutUnanswered(fd) ==
    [k \in (DOMAIN fd \cap Range(requiredFields)) \cup AnsweredEntries(fd) |-> fd[k]]

\* C20: in the local scorer every answered entry outside the 7 base fields adds
\* 5 to maxScore and 5, 3 or 1 to score by its length, next to the
\* certifications bonus; an unanswered entry adds nothing, and the result is
\* what it is without that entry.
C20_DynamicEntries ==
    LocallyScored =>
        LET base == calculateTransparencyScore(BaseOnly(formData))
            answered == AnsweredEntries(formData)
        IN  /\ result.maxScore - base.maxScore = 5 * Cardinality(answered)
            /\ result.rawScore - base.rawScore - CertificationBonus(formData) =
                    5 * Cardinality({k \in answered : Length(formData[k]) > 50})
                  + 3 * Cardinality({k \in answered : Length(formData[k]) > 20
                                                       /\ Length(formData[k]) <= 50})
                  + Cardinality({k \in answered : Length(formData[k]) <= 20})
            /\ result = calculateTransparencyScore(WithoutUnanswered(formData))

\* a form with one answered and one unanswered question was scored
C20_Witness ==
    /\ LocallyScored
    /\ Get(formData, "nutritional_info") = Empty
    /\ Get(formData, "supplier_audits") = Str(Never)
    /\ AnsweredEntries(formData) = {"supplier_audits"}
    /\ result.maxScore = 90

\* no id occurs twice in the list
DistinctIds(questions) == Cardinality(Range(Ids(questions))) = Len(questions)

UniversalIds == {"supplier_audits", "traceability", "social_responsibility"}

\* the list ends with the three supply-chain questions, preceded by the
\* organic_certification question exactly if triggered, preceded by questions
\* that are neither
OrderedList(questions, triggered) ==
    LET n == Len(questions)
        m == n - 3 - (IF triggered THEN 1 ELSE 0)
    IN  /\ m >= 0
        /\ \A i \in 1..m : questions[i].id \notin UniversalIds \cup {"organic_certification"}
        /\ triggered => questions[m + 1].id = "organic_certification"
        /\ questions[n - 2].id = "supplier_audits"
        /\ questions[n - 2].type = "select" /\ questions[n - 2].required
        /\ questions[n - 1].id = "traceability"
        /\ questions[n - 1].type = "select" /\ questions[n - 1].required
        /\ questions[n].id = "social_responsibility"
        /\ questions[n].type = "textarea" /\ ~questions[n].required

\* C21: the ids of a generated question list are pairwise distinct, and the list
\* is ordered: category questions, the organic_certification question if
\* triggered, and the three supply-chain questions last.
C21_OrderedDistinct ==
    (op = "questions" /\ path \in {"local", "fallback"}) =>
        /\ DistinctIds(result.questions)
        /\ OrderedList(result.questions, ContainsOrganic(Get(formData, "ingredients")))

\* C21 as amended: the statement holds of the local generator; the list of the
\* client's fallback branch has pairwise distinct ids and holds category
\* questions only.
C21_OrderedDistinctAmended ==
    /\ (op = "questions" /\ path = "local") =>
          /\ DistinctIds(result.questions)
          /\ OrderedList(result.questions, ContainsOrganic(Get(formData, "ingredients")))
    /\ (op = "questions" /\ path = "fallback") =>
          /\ DistinctIds(result.questions)
          /\ \A i \in 1..Len(result.questions) :
                result.questions[i].id \notin UniversalIds \cup {"organic_certification"}

\* a cosmetics product with organic ingredients: 3 + 1 + 3 questions
C21_Witness ==
    /\ op = "questions" /\ path = "local"
    /\ Get(formData, "category") = Str(CosmeticsCare)
    /\ ContainsOrganic(Get(formData, "ingredients"))
    /\ Len(result.questions) = 7
    /\ result.questions[4].id = "organic_certification"

\* the categories with a template of their own
TemplateCategories == {Str(FoodBeverages), Str(CosmeticsCare), Str(SupplementsVitamins)}

\* C22: for a category without a template of its own (Other, the empty string, a
\* missing value, a string outside the enumeration) the local generator returns
\* a list, the one it returns for category Other: quality_standards,
\* environmental_impact, then the conditional and the universal questions.
C22_GenericTemplate ==
    (op = "questions" /\ path = "local" /\ Get(formData, "category") \notin TemplateCategories)
        => /\ result.kind = "questions"
           /\ result.questions = generateFollowUpQuestions(Put(formData, "category", Str(Other)))
           /\ Ids(result.questions) =
                  <<"quality_standards", "environmental_impact">>
                      \o (IF ContainsOrganic(Get(formData, "ingredients"))
                          THEN <<"organic_certification">> ELSE <<>>)
                      \o <<"supplier_audits", "traceability", "social_responsibility">>

\* a form without a category and with organic ingredients got six questions
C22_Witness ==
    /\ op = "questions" /\ path = "local"
    /\ Get(formData, "category") = Undefined
    /\ ContainsOrganic(Get(formData, "ingredients"))
    /\ Len(result.questions) = 6

\* an answer that is missing or the empty string
Unanswered(fd, key) == Get(fd, key) \in {Undefined, Empty}

\* the advisories in the stated order, each under its stated condition
ExpectedAdvisories(fd) ==
    (IF Get(fd, "category") = Str(FoodBeverages) /\ Unanswered(fd, "nutritional_info")
     THEN <<NutritionAdvisory>> ELSE <<>>)
    \o (IF Get(fd, "category") = Str(FoodBeverages) /\ Unanswered(fd, "allergen_testing")
        THEN <<AllergenAdvisory>> ELSE <<>>)
    \o (IF Get(fd, "category") = Str(CosmeticsCare) /\ Unanswered(fd, "animal_testing")
        THEN <<AnimalTestingAdvisory>> ELSE <<>>)
    \o (IF Unanswered(fd, "supplier_audits") \/ Get(fd, "supplier_audits") = Str(Never)
        THEN <<SupplierAuditAdvisory>> ELSE <<>>)
    \o (IF Unanswered(fd, "traceability") \/ Get(fd, "traceability") = Str(NoTraceability)
        THEN <<TraceabilityAdvisory>> ELSE <<>>)

\* C23: after the tier message the insight list holds the advisories in the fixed
\* order nutrition, allergen, ethics, supplier audit, traceability, each exactly
\* under its condition.
C23_AdvisoryOrder ==
    (op = "insights" /\ path \in {"local", "fallback"}) =>
        Tail(result.insights) = ExpectedAdvisories(formData)

\* C23 as amended: the statement holds of the local generateInsights; the
\* fallback branch of the client's generateInsights appends the nutrition
\* advisory under its condition and nothing else.
C23_AdvisoryOrderAmended ==
    /\ (op = "insights" /\ path = "local") =>
          Tail(result.insights) = ExpectedAdvisories(formData)
    /\ (op = "insights" /\ path = "fallback") =>
          Tail(result.insights) =
              (IF Get(formData, "category") = Str(FoodBeverages)
                    /\ Unanswered(formData, "nutritional_info")
               THEN <<NutritionAdvisory>> ELSE <<>>)

\* a cosmetics product without an animal-testing answer and with suppliers never
\* audited got the ethics and the supplier-audit advisory, in that order
C23_Witness ==
    /\ op = "insights" /\ path = "local"
    /\ Get(formData, "category") = Str(CosmeticsCare)
    /\ Tail(result.insights) = <<AnimalTestingAdvisory, SupplierAuditAdvisory>>

\* C24: an invocation of a wrapper issues one request to the remote service and
\* no more: a failed remote call is followed by the local fallback, never by
\* another remote attempt, and a new invocation starts from one request, no
\* reply and no result.
C24_OneRequest ==
    [][ /\ requests' <= 1
        /\ pc = "RemoteAttempt" => requests' = requests
        /\ pc = "FallbackAttempt" => (pc' = "Success" /\ requests' = requests)
        /\ (pc # "RemoteAttempt" /\ pc' = "RemoteAttempt")
              => (requests' = 1 /\ response' = Pending /\ result' = NoResult) ]_vars

\* the score wrapper returned the fallback score after its one request failed
C24_Witness ==
    /\ pc = "Success" /\ path = "fallback" /\ op = "score"
    /\ requests = 1

\* C25: when the insight wrapper is called with the score the score wrapper has
\* just returned, the insights come from the path the score came from: both
\* from the remote service or both from the local fallback.
C25_SamePath ==
    (op = "insights" /\ pc = "Success" /\ scoreFrom \in {"remote", "fallback"})
        => path = scoreFrom

\* the fallback branch scored an input that holds no dynamic answer
FallbackScored ==
    /\ pc = "Success" /\ op = "score" /\ path = "fallback"
    /\ ExtraAnswers(formData) = {}

\* C26: after a failed remote call the fallback branch returns the score the
\* local scorer returns for the same input, for every input without dynamic
\* answers.
C26_FallbackEqualsLocal ==
    FallbackScored => result.score = calculateTransparencyScore(formData).score

\* C26 as amended: the two scores agree on the inputs without dynamic answers
\* in which productName, category, brand and certifications are empty and no
\* depth field is whitespace-only.
C26_FallbackEqualsLocalAmended ==
    ( /\ FallbackScored
      /\ \A k \in IdentityFields \cup {"certifications"} : ~Truthy(Get(formData, k))
      /\ \A k \in DepthFields :
            Truthy(Get(formData, k)) => TrimTruthy(Get(formData, k)) )
        => result.score = calculateTransparencyScore(formData).score

\* the fallback branch scored a form that holds one short depth field and nothing else
C26_Witness ==
    /\ FallbackScored
    /\ \A k \in IdentityFields \cup {"certifications"} : ~Truthy(Get(formData, k))
    /\ \A k \in DepthFields :
          Truthy(Get(formData, k)) => TrimTruthy(Get(formData, k))
    /\ result.rawScore = 3

\* the list the form shows for the questions generated from fd
ShownQuestions(fd) ==
    LET NotNumber(q) == q.type # "number"
    IN  SelectSeq(generateFollowUpQuestions(fd), NotNumber)

\* C27: isGeneratingQuestions is true whenever a question generation is in
\* flight, and when the last generation in flight finishes, dynamicQuestions is
\* the result of the most recently started one.
C27_LatestGeneration ==
    [][ /\ generating' # <<>> => isGeneratingQuestions'
        /\ (generating # <<>> /\ generating' = <<>>)
              => dynamicQuestions' = ShownQuestions(generating[Len(generating)].formData) ]_vars

\* the questions were generated for Food & Beverages and answered, the category
\* was changed, and the generation started on coming back has finished
C27_Witness ==
    /\ generating = <<>> /\ ~isGeneratingQuestions
    /\ currentStep = Len(initialSteps) - 1
    /\ formData["category"] = Str(CosmeticsCare)
    /\ "nutritional_info" \in AnswerIds(formData["dynamicResponses"])
    /\ dynamicQuestions = ShownQuestions(formData)

\* fd with no answer to any generated question
WithoutResponses(fd) == [fd EXCEPT !["dynamicResponses"] = Obj(NoEntries)]

\* C28: the score and the insights handleSubmit computes are those it computes
\* for the same form with no dynamic answer at all: they do not depend on
\* dynamicResponses.
C28_AnswersIgnored ==
    [][(submitPhase = "scoring" /\ formData'["status"] = Str(completed)) =>
          LET unanswered == WithoutResponses(submitData)
              score == calculateTransparencyScore(unanswered).score
          IN  /\ formData'["transparencyScore"] = Num(score)
              /\ formData'["insights"] = Arr(generateInsights(unanswered, score))
              /\ insights' = generateInsights(unanswered, score)]_vars

\* a form with three answered questions was scored
C28_Witness ==
    /\ formData["status"] = Str(completed)
    /\ Cardinality(AnswerIds(formData["dynamicResponses"])) >= 3

EarlierStepsValid(step, fd) ==
    \A k \in 0..(Len(initialSteps) - 1) :
        k < step => \A name \in Range(initialSteps[k + 1]) : TrimTruthy(fd[name])

\* C30: currentStep stays in 0..totalSteps - 1, every required base field of
\* the steps before currentStep is non-blank, the step grows only by one and
\* only when validateStep holds for the step left, and it shrinks only by one
\* and never from step 0.
C30_StepInvariant ==
    [][ /\ currentStep' \in 0..(totalSteps(dynamicQuestions') - 1)
        /\ EarlierStepsValid(currentStep', formData')
        /\ currentStep' > currentStep
              => /\ currentStep' = currentStep + 1
                 /\ validateStep(currentStep, formData, dynamicQuestions)
        /\ currentStep' < currentStep
              => (currentStep' = currentStep - 1 /\ currentStep # 0) ]_vars

\* the user went back to the first step from the question step and cleared the brand
C30_Witness ==
    /\ currentStep = 0
    /\ dynamicQuestions # <<>>
    /\ formData["brand"] = Empty
    /\ AnswerIds(formData["dynamicResponses"]) # {}

====
